---- MODULE Spec2Model ----
(***************************************************************************)
(* Model of the systray Application core (src/src/lib.rs): the menu-index  *)
(* counter, the callback table, the name <-> index registries and the      *)
(* blocking dispatch loops wait_for_message / wait_for_message_callback.   *)
(* The platform window (module api, not part of lib.rs) is modelled by its *)
(* interface: every call may be accepted or rejected, its message thread   *)
(* sends menu indices through the channel and drops the sender on exit.    *)
(* A menu callback and the name handler own &mut Application while they    *)
(* run: they may call add_menu_item, add_menu_separator, remove_menu_item, *)
(* quit and shutdown any number of times before they return.  A callback   *)
(* that re-enters a dispatch loop or panics by itself is not modelled.     *)
(***************************************************************************)
EXTENDS Integers, Sequences, FiniteSets, TLC

(* ------------------------------ bounds -------------------------------- *)
\* adds are cut off once menu_idx reaches MaxIdx
MaxIdx == 2
\* events buffered in the channel
MaxQueue == 1

Names == {"A", "B"}
Results == {"Ok", "Err"}

NoIdx == 0 - 1
NoName == ""
NoCb == NoIdx

VARIABLES
    menu_idx,        \* Application.menu_idx
    callback,        \* Application.callback: index -> closure
    items,           \* Application.items
    items_reversed,  \* Application.items_reversed
    rx,              \* events in the channel, oldest first
    tx_alive,        \* the window still holds the sending end
    win_menu,        \* native menu: index -> label (NoName for a separator)
    win_accepted,    \* indices the window accepted through add_menu_entry/add_menu_separator
    win_quit,        \* quit() was forwarded to the window
    win_shutdown,    \* a shutdown request reached the window
    loop,            \* the dispatch loop of the application thread
    status,          \* "running", "panicked" (unwinding done), "dropped"
    last,            \* the step just taken ("other": a step no property refers to)
    ret_log          \* successful adds in order: index returned, name, closure

vars == <<menu_idx, callback, items, items_reversed, rx, tx_alive, win_menu,
          win_accepted, win_quit, win_shutdown, loop, status, last, ret_log>>

regs == <<menu_idx, callback, items, items_reversed>>
chan == <<rx, tx_alive>>
win == <<win_menu, win_accepted, win_quit, win_shutdown>>

(* ----------------------- HashMap operations --------------------------- *)
EmptyMap == [k \in {} |-> 0]

contains_key(m, k) == k \in DOMAIN m

MapInsert(m, k, v) == [x \in (DOMAIN m) \cup {k} |-> IF x = k THEN v ELSE m[x]]

MapRemove(m, k) == [x \in (DOMAIN m) \ {k} |-> m[x]]

(* --------------------------- helpers ---------------------------------- *)
\* kind: "plain" (wait_for_message) or "named" (wait_for_message_callback);
\* phase: "none" (no loop running), "waiting" (in recv), "cb" (inside the menu
\* callback f of index msg), "handler" (inside the name handler, given name);
\* base: the number of adds that had succeeded when the callback was called
Frame(kind, phase, msg, f, name, base) ==
    [kind |-> kind, phase |-> phase, msg |-> msg, f |-> f, name |-> name,
     base |-> base]

NoLoop == Frame(NoName, "none", NoIdx, NoCb, NoName, 0)

WaitingFrame(kind) == Frame(kind, "waiting", NoIdx, NoCb, NoName, 0)

\* the application thread is executing caller code: outside a loop, or inside
\* a menu callback or the name handler
CanCall == status = "running" /\ loop.phase \in {"none", "cb", "handler"}

\* every closure handed to add_menu_item is a value of its own
NewCallback == Len(ret_log) + 1

\* a step: the operation, its name argument, the index it passed to the window
\* (or received, or returned), whether it called the window, its result, and for
\* a callback's return the number of adds the callback made; a receive carries
\* the loop's kind for name, a drop the status it found for name and the
\* number of shutdown requests the window had seen (0, or 1 for any) for added
Step(op, name, idx, asked, res, added) ==
    [op |-> op, name |-> name, idx |-> idx, asked |-> asked, res |-> res,
     added |-> added]

Op(op, name, idx, asked, res) == Step(op, name, idx, asked, res, 0)

Other == Op("other", NoName, NoIdx, FALSE, "Ok")

\* the closure that the add returning index i was given (NoCb: none)
Registered(i) ==
    LET S == {k \in 1 .. Len(ret_log) : ret_log[k].idx = i}
    IN IF S = {} THEN NoCb ELSE ret_log[CHOOSE k \in S : TRUE].f

Init ==
    /\ menu_idx = 0
    /\ callback = EmptyMap
    /\ items = EmptyMap
    /\ items_reversed = EmptyMap
    /\ rx = <<>>
    /\ tx_alive = TRUE
    /\ win_menu = EmptyMap
    /\ win_accepted = {}
    /\ win_quit = FALSE
    /\ win_shutdown = FALSE
    /\ loop = NoLoop
    /\ status = "running"
    /\ last = Op("new", NoName, NoIdx, TRUE, "Ok")
    /\ ret_log = <<>>

(* ---------------------------- Application ----------------------------- *)
Regs(mi, cb, it, rev, panic) ==
    [menu_idx |-> mi, callback |-> cb, items |-> it, items_reversed |-> rev,
     panic |-> panic]

Same == Regs(menu_idx, callback, items, items_reversed, FALSE)

\* faulty variant: the counter is not advanced
NextMenuIdx_stuck(i) == i

\* self.menu_idx += 1 (a u32: the overflow after 2^32 - 1 adds lies beyond
\* MaxIdx and beyond the integers TLC represents)
NextMenuIdx(i) == i + 1

\* let idx = self.menu_idx: the index an add passes to the window, files the
\* entry under and returns
alloc_idx == menu_idx

\* the four statements of add_menu_item after the window accepted the entry
add_menu_item_commit(name, f) ==
    Regs(NextMenuIdx(menu_idx),
         MapInsert(callback, alloc_idx, f),
         MapInsert(items, name, alloc_idx),
         MapInsert(items_reversed, alloc_idx, name),
         FALSE)

\* faulty variant: the counter is advanced before the window is asked
add_menu_item_regs_early(name, f, res) ==
    IF res = "Err"
    THEN Regs(NextMenuIdx(menu_idx), callback, items, items_reversed, FALSE)
    ELSE add_menu_item_commit(name, f)

\* faulty variant: the reverse registry is not written
add_menu_item_regs_norev(name, f, res) ==
    IF res = "Err"
    THEN Same
    ELSE Regs(NextMenuIdx(menu_idx), MapInsert(callback, alloc_idx, f),
              MapInsert(items, name, alloc_idx), items_reversed, FALSE)

\* faulty variant: a name that is present keeps its first index
add_menu_item_regs_firstwins(name, f, res) ==
    IF res = "Err"
    THEN Same
    ELSE Regs(NextMenuIdx(menu_idx), MapInsert(callback, alloc_idx, f),
              IF contains_key(items, name) THEN items
              ELSE MapInsert(items, name, alloc_idx),
              MapInsert(items_reversed, alloc_idx, name), FALSE)

\* add_menu_item: the registries after the call, given the window's answer to
\* add_menu_entry(idx, name)
add_menu_item_regs(name, f, res) ==
    IF res = "Err"
    THEN Same
    ELSE add_menu_item_commit(name, f)

\* faulty variant: the separator is filed as an entry with an empty name
add_menu_separator_regs_named(res) ==
    IF res = "Err"
    THEN Same
    ELSE Regs(NextMenuIdx(menu_idx), callback, items,
              MapInsert(items_reversed, menu_idx, NoName), FALSE)

\* add_menu_separator: the registries after the call, given the window's
\* answer to add_menu_separator(idx)
add_menu_separator_regs(res) ==
    IF res = "Err"
    THEN Same
    ELSE Regs(NextMenuIdx(menu_idx), callback, items, items_reversed, FALSE)

\* remove_menu_item asks the window only when items knows the name
remove_menu_item_asks(name) == contains_key(items, name)

\* faulty variant: the stored callback is removed with the name
remove_menu_item_regs_dropcb(name, res) ==
    IF ~contains_key(items, name) \/ res = "Err"
    THEN Same
    ELSE Regs(menu_idx, MapRemove(callback, items[name]), MapRemove(items, name),
              MapRemove(items_reversed, items[name]), FALSE)

\* faulty variant: the name stays in items
remove_menu_item_regs_keepname(name, res) ==
    IF ~contains_key(items, name) \/ res = "Err"
    THEN Same
    ELSE Regs(menu_idx, callback, items, MapRemove(items_reversed, items[name]),
              ~contains_key(items_reversed, items[name]))

\* remove_menu_item: the registries after the call, given the window's answer
\* to remove_menu_entry(items[name], name); expect() panics on None
remove_menu_item_regs(name, res) ==
    IF ~contains_key(items, name)
    THEN Same
    ELSE LET idx == items[name] IN
         IF res = "Err"
         THEN Same
         ELSE IF ~contains_key(items_reversed, idx)
              THEN Regs(menu_idx, callback, MapRemove(items, name), items_reversed, TRUE)
              ELSE Regs(menu_idx, callback, MapRemove(items, name),
                        MapRemove(items_reversed, idx), FALSE)

\* faulty variant: every received index is dispatched
has_callback_any(i) == TRUE

\* the loop's test of a received index: invoke a callback or drop the event
has_callback(i) == contains_key(callback, i)

\* faulty variant: the callback stays in the table while it runs
take_callback_keep(i) == callback

\* the callback table while the callback of index i runs
take_callback(i) == MapRemove(callback, i)

\* faulty variant: what is put back is not the callback that was taken out
reinsert_callback_other(i, f) == MapInsert(callback, i, NoCb)

\* faulty variant: the callback is not put back
reinsert_callback_lost(i, f) == callback

\* the callback table after the callback f of index i returned
reinsert_callback(i, f) == MapInsert(callback, i, f)

\* the registries become r; a panic unwinds the loop
Commit(r) ==
    /\ menu_idx' = r.menu_idx
    /\ callback' = r.callback
    /\ items' = r.items
    /\ items_reversed' = r.items_reversed
    /\ IF r.panic
       THEN status' = "panicked" /\ loop' = NoLoop
       ELSE UNCHANGED <<status, loop>>

add_menu_item(name, res) ==
    /\ CanCall
    /\ menu_idx < MaxIdx
    /\ Commit(add_menu_item_regs(name, NewCallback, res))
    /\ last' = Op("add_menu_item", name, alloc_idx, TRUE, res)
    /\ IF res = "Ok"
       THEN /\ win_menu' = MapInsert(win_menu, alloc_idx, name)
            /\ win_accepted' = win_accepted \cup {alloc_idx}
            /\ ret_log' = Append(ret_log, [idx |-> alloc_idx, name |-> name,
                                           f |-> NewCallback])
       ELSE UNCHANGED <<win_menu, win_accepted, ret_log>>
    /\ UNCHANGED <<chan, win_quit, win_shutdown>>

add_menu_separator(res) ==
    /\ CanCall
    /\ menu_idx < MaxIdx
    /\ Commit(add_menu_separator_regs(res))
    /\ last' = Op("add_menu_separator", NoName, alloc_idx, TRUE, res)
    /\ IF res = "Ok"
       THEN /\ win_menu' = MapInsert(win_menu, alloc_idx, NoName)
            /\ win_accepted' = win_accepted \cup {alloc_idx}
            /\ ret_log' = Append(ret_log, [idx |-> alloc_idx, name |-> NoName,
                                           f |-> NoCb])
       ELSE UNCHANGED <<win_menu, win_accepted, ret_log>>
    /\ UNCHANGED <<chan, win_quit, win_shutdown>>

remove_menu_item(name, res) ==
    /\ CanCall
    /\ ~remove_menu_item_asks(name) => res = "Ok"
    /\ Commit(remove_menu_item_regs(name, res))
    /\ last' = Op("remove_menu_item", name,
                  IF remove_menu_item_asks(name) THEN items[name] ELSE NoIdx,
                  remove_menu_item_asks(name), res)
    /\ IF remove_menu_item_asks(name) /\ res = "Ok"
       THEN win_menu' = MapRemove(win_menu, items[name])
       ELSE UNCHANGED win_menu
    /\ UNCHANGED <<chan, win_accepted, win_quit, win_shutdown, ret_log>>

\* faulty variant: the request does not reach the window
window_quit_lost(q) == q

\* self.window.quit(): the window has been asked to stop its message thread
window_quit(q) == TRUE

quit ==
    /\ CanCall
    /\ win_quit' = window_quit(win_quit)
    /\ last' = Other
    /\ UNCHANGED <<regs, chan, win_menu, win_accepted, win_shutdown, loop,
                   status, ret_log>>

shutdown(res) ==
    /\ CanCall
    /\ win_shutdown' = TRUE
    /\ last' = Other
    /\ UNCHANGED <<regs, chan, win_menu, win_accepted, win_quit, loop, status,
                   ret_log>>

(* --------------------------- dispatch loop ---------------------------- *)
\* entering wait_for_message ("plain") or wait_for_message_callback ("named")
EnterLoop(kind) ==
    /\ status = "running"
    /\ loop.phase = "none"
    /\ loop' = WaitingFrame(kind)
    /\ last' = Other
    /\ UNCHANGED <<regs, chan, win, status, ret_log>>

wait_for_message == EnterLoop("plain")

wait_for_message_callback == EnterLoop("named")

Waiting == status = "running" /\ loop.phase = "waiting"

\* rx.recv() returns Ok(msg): test the index, take the callback out and call it
recv_ok ==
    /\ Waiting
    /\ rx # <<>>
    /\ LET i == Head(rx) IN
       /\ rx' = Tail(rx)
       /\ last' = Op("recv", loop.kind, i, FALSE, "Ok")
       /\ IF has_callback(i)
          THEN IF contains_key(callback, i)
               THEN /\ loop' = Frame(loop.kind, "cb", i, callback[i], NoName,
                                  Len(ret_log))
                    /\ callback' = take_callback(i)
                    /\ UNCHANGED status
               ELSE \* remove(..).unwrap() on None
                    /\ loop' = NoLoop
                    /\ status' = "panicked"
                    /\ UNCHANGED callback
          ELSE UNCHANGED <<loop, callback, status>>
    /\ UNCHANGED <<menu_idx, items, items_reversed, tx_alive, win, ret_log>>

\* rx.recv() returns Err: the sender is gone and the buffer is empty
recv_err ==
    /\ Waiting
    /\ rx = <<>>
    /\ ~tx_alive
    /\ win_quit' = window_quit(win_quit)
    /\ loop' = NoLoop
    /\ last' = Op("recv_closed", loop.kind, NoIdx, TRUE, "Err")
    /\ UNCHANGED <<regs, chan, win_menu, win_accepted, win_shutdown, status, ret_log>>

\* the menu callback returns: reinsert it; the named variant then looks the
\* name up (get(..).unwrap()) and calls the handler
callback_return ==
    /\ status = "running"
    /\ loop.phase = "cb"
    /\ callback' = reinsert_callback(loop.msg, loop.f)
    /\ last' = Step("cb_return", loop.kind, loop.msg, FALSE, "Ok",
                     Len(ret_log) - loop.base)
    /\ IF loop.kind = "plain"
       THEN /\ loop' = WaitingFrame(loop.kind)
            /\ UNCHANGED status
       ELSE IF contains_key(items_reversed, loop.msg)
            THEN /\ loop' = Frame(loop.kind, "handler", loop.msg, loop.f,
                                  items_reversed[loop.msg], 0)
                 /\ UNCHANGED status
            ELSE /\ loop' = NoLoop
                 /\ status' = "panicked"
    /\ UNCHANGED <<menu_idx, items, items_reversed, chan, win, ret_log>>

handler_return ==
    /\ status = "running"
    /\ loop.phase = "handler"
    /\ loop' = WaitingFrame(loop.kind)
    /\ last' = Other
    /\ UNCHANGED <<regs, chan, win, status, ret_log>>

\* Drop for Application: the owner lets go of it or a panic unwinds
\* faulty variant: no request when shutdown was called before
drop_asks_once == ~win_shutdown

\* drop calls self.shutdown() whatever came before
drop_asks == TRUE

\* self.shutdown().ok(): the result res of the request is thrown away
drop(res) ==
    /\ IF status = "running" THEN loop.phase = "none" ELSE status = "panicked"
    /\ status' = "dropped"
    /\ win_shutdown' = (win_shutdown \/ drop_asks)
    /\ last' = Step("drop", status, NoIdx, drop_asks, res,
                     IF win_shutdown THEN 1 ELSE 0)
    /\ UNCHANGED <<regs, chan, win_menu, win_accepted, win_quit, loop, ret_log>>

(* ----------------------- window message thread ------------------------ *)
\* a click: the index of an entry, a separator or the next index to come
window_send(i) ==
    /\ tx_alive
    /\ status # "dropped"
    /\ Len(rx) < MaxQueue
    /\ rx' = Append(rx, i)
    /\ last' = Other
    /\ UNCHANGED <<regs, tx_alive, win, loop, status, ret_log>>

\* the message thread ends and drops its Sender
window_exit ==
    /\ tx_alive
    /\ tx_alive' = FALSE
    /\ last' = Other
    /\ UNCHANGED <<regs, rx, win, loop, status, ret_log>>

Next ==
    \/ \E n \in Names, r \in Results : add_menu_item(n, r)
    \/ \E r \in Results : add_menu_separator(r)
    \/ \E n \in Names, r \in Results : remove_menu_item(n, r)
    \/ quit
    \/ \E r \in Results : shutdown(r)
    \/ wait_for_message
    \/ wait_for_message_callback
    \/ recv_ok
    \/ recv_err
    \/ callback_return
    \/ handler_return
    \/ \E r \in Results : drop(r)
    \/ \E i \in 0 .. menu_idx : window_send(i)
    \/ window_exit

Spec == Init /\ [][Next]_vars

(* ------------------- a menu item that quits the loop ------------------ *)
\* every closure is one that calls app.quit() before it returns; the window
\* ends its message thread, and with it drops the Sender, once quit has been
\* requested; the application thread keeps running and every callback returns
quit_callback_quit == loop.phase = "cb" /\ quit

quit_callback_return == win_quit /\ callback_return

window_quit_exit == win_quit /\ window_exit

NextQuit ==
    \/ \E n \in Names, r \in Results : add_menu_item(n, r)
    \/ quit
    \/ wait_for_message
    \/ recv_ok
    \/ recv_err
    \/ quit_callback_return
    \/ \E r \in Results : drop(r)
    \/ \E i \in 0 .. menu_idx : window_send(i)
    \/ window_exit

SpecQuit ==
    /\ Init
    /\ [][NextQuit]_vars
    /\ WF_vars(recv_ok)
    /\ WF_vars(recv_err)
    /\ WF_vars(quit_callback_quit)
    /\ WF_vars(quit_callback_return)
    /\ WF_vars(window_quit_exit)

(* ---------------------------- properties ------------------------------ *)
\* the step just taken is a call of op
Called(op) == last'.op = op

\* the index of the latest successful add of name n
LatestIdx(n) ==
    LET S == {k \in 1 .. Len(ret_log) : ret_log[k].name = n}
    IN ret_log[CHOOSE k \in S : \A m \in S : m <= k].idx

\* the indices returned by add_menu_item (not by add_menu_separator)
ItemIdx == {ret_log[k].idx : k \in {m \in 1 .. Len(ret_log) : ret_log[m].f # NoCb}}

\* C1: the indices returned by successful adds (items and separators, from
\* the owner or from inside a callback) are strictly increasing without
\* repeats; each successful add returns the current menu_idx and advances it by
\* one, nothing lowers it, so a name added again after its removal gets a
\* larger index than before.
C1_IndicesStrictlyIncrease ==
    /\ \A k, l \in 1 .. Len(ret_log) : k < l => ret_log[k].idx < ret_log[l].idx
    /\ \A k \in 1 .. Len(ret_log) : ret_log[k].idx < menu_idx
    /\ menu_idx = Len(ret_log)

\* "A" was added, removed and added again
C1_Witness ==
    /\ Len(ret_log) = 2
    /\ ret_log[1].name = "A"
    /\ ret_log[2].name = "A"
    /\ ~contains_key(items_reversed, ret_log[1].idx)
    /\ contains_key(items, "A")
    /\ items["A"] = ret_log[2].idx

\* C2: while the callback registered for index i is being invoked, the
\* callback table has no entry for i, whatever the callback does meanwhile.
C2_InvokedEntryAbsent ==
    loop.phase = "cb" => ~contains_key(callback, loop.msg)

\* a running callback has just added an item after quit() was requested
C2_Witness ==
    /\ loop.phase = "cb"
    /\ last.op = "add_menu_item"
    /\ last.res = "Ok"
    /\ win_quit
    /\ contains_key(callback, last.idx)

NamesAddedOnce ==
    \A k, l \in 1 .. Len(ret_log) :
        (k < l /\ ret_log[k].name # NoName) => ret_log[k].name # ret_log[l].name

C4_FailedAddLeavesNoTrace ==
    [][ /\ (Called("add_menu_item") /\ last'.res = "Err")
            => (UNCHANGED <<regs, ret_log, loop, status>> /\ last'.idx = menu_idx)
        /\ (/\ last.op = "add_menu_item"
            /\ last.res = "Err"
            /\ last'.op \in {"add_menu_item", "add_menu_separator"}
            /\ last'.res = "Ok")
            => last'.idx = last.idx
      ]_vars

\* a rejected add_menu_item on an Application that holds an item
C4_Witness ==
    /\ last.op = "add_menu_item"
    /\ last.res = "Err"
    /\ last.idx = 1
    /\ contains_key(callback, 0)

\* C5: remove_menu_item(name) for a present name asks the window to delete
\* the name's index; on an error nothing changes; on success exactly the name
\* leaves items and its index leaves items_reversed, the callback table (the
\* index's callback included) and menu_idx stay as they were.
C5_RemoveFrame ==
    [][ Called("remove_menu_item") =>
          /\ last'.asked = contains_key(items, last'.name)
          /\ last'.asked => last'.idx = items[last'.name]
          /\ (last'.asked /\ last'.res = "Err") => UNCHANGED regs
          /\ (last'.asked /\ last'.res = "Ok") =>
                /\ items' = MapRemove(items, last'.name)
                /\ items_reversed' = MapRemove(items_reversed, items[last'.name])
                /\ callback' = callback
                /\ menu_idx' = menu_idx
          /\ UNCHANGED <<loop, status>>
      ]_vars

\* a successful removal: the index left the registries, its callback stayed
C5_Witness ==
    /\ last.op = "remove_menu_item"
    /\ last.asked
    /\ last.res = "Ok"
    /\ contains_key(callback, last.idx)
    /\ ~contains_key(items_reversed, last.idx)
    /\ ~contains_key(items, last.name)

\* C6 as stated: two remove_menu_item(name) calls in a row both return
\* success, and the second asks the window nothing and changes no registry.
C6_RemoveTwiceSucceeds ==
    [][ (/\ last.op = "remove_menu_item"
         /\ Called("remove_menu_item")
         /\ last'.name = last.name)
        => (/\ last.res = "Ok"
            /\ last'.res = "Ok"
            /\ ~last'.asked
            /\ UNCHANGED <<regs, win_menu>>)
      ]_vars

\* C6 (amended): once remove_menu_item(name) has returned success, calling it
\* again right away returns success, asks the window nothing and changes no
\* registry; removing a name that items does not hold (never added, or already
\* removed) is a successful no-op.  A removal the window rejected returns the
\* error, and the next call asks the window again.
C6_RemoveIdempotent ==
    [][ /\ (/\ last.op = "remove_menu_item"
            /\ last.res = "Ok"
            /\ Called("remove_menu_item")
            /\ last'.name = last.name)
           => (last'.res = "Ok" /\ ~last'.asked /\ UNCHANGED <<regs, win_menu>>)
        /\ (Called("remove_menu_item") /\ ~contains_key(items, last'.name))
           => (/\ last'.res = "Ok"
               /\ ~last'.asked
               /\ UNCHANGED <<regs, win_menu, loop, status>>)
      ]_vars

\* "A" was added once and removed; this further removal found nothing to do
C6_Witness ==
    /\ Len(ret_log) = 1
    /\ ret_log[1].name = "A"
    /\ last.op = "remove_menu_item"
    /\ last.name = "A"
    /\ ~last.asked
    /\ last.res = "Ok"
    /\ ~contains_key(win_menu, ret_log[1].idx)

\* C7: after two adds of one display name (indices i < j) items maps the name
\* to j only; remove_menu_item(name) asks the window to delete j, not i; before
\* and after the removal an event carrying i or j invokes the callback that
\* was registered under that index.
C7_ShadowedName ==
    /\ [](\A n \in DOMAIN items : items[n] = LatestIdx(n))
    /\ [][ /\ (Called("remove_menu_item") /\ last'.asked)
              => last'.idx = LatestIdx(last'.name)
           /\ (Called("recv") /\ last'.idx \in ItemIdx)
              => (/\ loop'.phase = "cb"
                  /\ loop'.msg = last'.idx
                  /\ loop'.f = Registered(last'.idx))
         ]_vars

\* "A" was added twice and removed once (the older index kept its reverse
\* entry, the newer lost it), and the newer index is being dispatched
C7_Witness ==
    /\ Len(ret_log) = 2
    /\ ret_log[1].name = "A"
    /\ ret_log[2].name = "A"
    /\ ~contains_key(items, "A")
    /\ contains_key(items_reversed, ret_log[1].idx)
    /\ ~contains_key(items_reversed, ret_log[2].idx)
    /\ loop.phase = "cb"
    /\ loop.msg = ret_log[2].idx
    /\ loop.f = ret_log[2].f

\* C8: an add_menu_item made by a callback during its own invocation goes
\* through at once and leaves the table sound: the new closure is filed under
\* a new index, the invoking callback is back under its own index when the
\* dispatch ends, and an event carrying an index of the table invokes the
\* closure filed under it (the new one included).
C8_AddInsideCallback ==
    [][ /\ (loop.phase = "cb" /\ Called("add_menu_item") /\ last'.res = "Ok")
           => (/\ loop' = loop
               /\ status' = status
               /\ last'.idx # loop.msg
               /\ ~contains_key(callback, last'.idx)
               /\ callback' = MapInsert(callback, last'.idx,
                                        ret_log'[Len(ret_log')].f))
        /\ (loop.phase = "cb" /\ loop'.phase # "cb")
           => (/\ contains_key(callback', loop.msg)
               /\ callback'[loop.msg] = loop.f
               /\ loop.f = Registered(loop.msg)
               /\ \A k \in (loop.base + 1) .. Len(ret_log) :
                     ret_log[k].f # NoCb
                       => (/\ ret_log[k].idx # loop.msg
                           /\ contains_key(callback', ret_log[k].idx)
                           /\ callback'[ret_log[k].idx] = ret_log[k].f))
        /\ (Called("recv") /\ contains_key(callback, last'.idx))
           => (/\ loop'.phase = "cb"
               /\ loop'.msg = last'.idx
               /\ loop'.f = callback[last'.idx])
      ]_vars

\* a callback that added an item has returned, and an event carrying the new
\* index is the next to be received
C8_Witness ==
    /\ last.op = "cb_return"
    /\ last.added > 0
    /\ loop.phase = "waiting"
    /\ ret_log[Len(ret_log)].f # NoCb
    /\ contains_key(callback, last.idx)
    /\ contains_key(callback, ret_log[Len(ret_log)].idx)
    /\ rx # <<>>
    /\ Head(rx) = ret_log[Len(ret_log)].idx

\* C9: a received event whose index has no entry in the callback table (a
\* separator, an index not allocated) invokes no callback and no handler,
\* raises nothing, changes no registry and leaves the loop waiting.
C9_UnknownIndexDropped ==
    [][ (Called("recv") /\ ~contains_key(callback, last'.idx))
        => (/\ UNCHANGED <<regs, loop, status, win, ret_log>>
            /\ loop.phase = "waiting"
            /\ status = "running")
      ]_vars

\* the event of a separator was received and dropped
C9_Witness ==
    /\ last.op = "recv"
    /\ last.idx < menu_idx
    /\ Registered(last.idx) = NoCb
    /\ loop.phase = "waiting"
    /\ status = "running"

\* C10: the dispatch loop stops only when a receive reports the channel
\* closed; nothing else ends it while the channel is open.
C10_OnlyClosureEndsLoop ==
    [][ (loop.phase # "none" /\ loop'.phase = "none")
        => (Called("recv_closed") /\ ~tx_alive /\ rx = <<>>)
      ]_vars

\* the loop is inside a dispatch: the menu callback or the name handler
Dispatching == loop.phase \in {"cb", "handler"}

\* the sender is gone and nothing is buffered: recv can only report closure
Closed == ~tx_alive /\ rx = <<>>

\* C11: the loop moves Waiting -> Dispatching -> Waiting and Waiting ->
\* Terminated only: it is left only from Waiting and only by a receive that
\* reports the channel closed, that receive makes the loop call quit() on the
\* window once, and once the loop has seen the closure no callback and no
\* handler is invoked any more.
C11_LoopStateMachine ==
    [][ /\ (loop.phase = "waiting" /\ loop'.phase # "waiting")
           => \/ Called("recv") /\ loop'.phase = "cb"
              \/ Called("recv_closed") /\ loop'.phase = "none"
        /\ (Dispatching /\ ~Dispatching')
           => (loop'.phase = "waiting" /\ status' = "running")
        /\ Called("recv_closed")
           => (Closed /\ loop.phase = "waiting" /\ last'.asked /\ win_quit')
        /\ (Closed /\ ~Dispatching) => (Closed' /\ ~Dispatching')
      ]_vars

\* an event for an item with a callback is the next that wait_for_message
\* receives
QuitEventPending ==
    /\ status = "running"
    /\ loop.kind = "plain"
    /\ loop.phase = "waiting"
    /\ rx # <<>>
    /\ contains_key(callback, Head(rx))

\* C12: with callbacks that call quit() and a window that ends its message
\* thread once quit is requested, an event for an item that wait_for_message
\* is about to receive leads to the callback being invoked, the callback's
\* invocation leads to the quit request reaching the window, and the request
\* leads to the loop seeing the channel closed and wait_for_message returning.
C12_QuitCallbackEndsLoop ==
    /\ QuitEventPending ~> (loop.kind = "plain" /\ loop.phase = "cb")
    /\ (loop.kind = "plain" /\ loop.phase = "cb") ~> win_quit
    /\ (loop.kind = "plain" /\ loop.phase # "none" /\ win_quit)
       ~> (loop.phase = "none" /\ last.op = "recv_closed" /\ Closed)

\* a callback of wait_for_message has just returned after its quit request,
\* the window has ended its thread, and the loop is about to see the closure
C12_Witness ==
    /\ last.op = "cb_return"
    /\ last.name = "plain"
    /\ loop.phase = "waiting"
    /\ win_quit
    /\ Closed

\* the name given to the add_menu_item call that returned index i
NameGiven(i) ==
    ret_log[CHOOSE k \in 1 .. Len(ret_log) : ret_log[k].idx = i].name

\* C13: in wait_for_message_callback a received event whose index has a
\* callback invokes that callback first; when the callback returns, and only
\* then, the handler is invoked, once, with the name that was given to the
\* add_menu_item call which returned the index.
C13_CallbackThenHandler ==
    [][ /\ (Called("recv") /\ loop.kind = "named"
                /\ contains_key(callback, last'.idx))
           => (/\ loop'.phase = "cb"
               /\ loop'.msg = last'.idx
               /\ loop'.f = callback[last'.idx])
        /\ (Called("cb_return") /\ loop.kind = "named")
           => (/\ loop'.phase = "handler"
               /\ loop'.msg = loop.msg
               /\ loop'.name = NameGiven(loop.msg))
        /\ (loop'.phase = "handler" /\ loop.phase # "handler")
           => (Called("cb_return") /\ loop.phase = "cb")
        /\ (loop.phase = "handler" /\ loop' # loop)
           => loop'.phase = "waiting"
      ]_vars

\* C14: the destruction of the Application, whether its owner lets go of it or
\* a panic unwinds, is one step that sends one shutdown request to the window,
\* also when shutdown() was called before; the request's failure changes
\* nothing and raises nothing, and after the destruction no further request
\* is made.
C14_DropShutsDownOnce ==
    [][ /\ Called("drop")
           => (/\ last'.asked
               /\ win_shutdown'
               /\ status \in {"running", "panicked"}
               /\ status' = "dropped"
               /\ UNCHANGED <<regs, chan, loop, win_menu, win_accepted, win_quit,
                              ret_log>>)
        /\ (status' = "dropped" /\ status # "dropped") => Called("drop")
        /\ status = "dropped"
           => (status' = "dropped" /\ ~Called("drop") /\ UNCHANGED win_shutdown)
      ]_vars

\* the Application was destroyed by an unwinding panic after an explicit
\* shutdown(), and the destructor's request failed
C14_Witness ==
    /\ last.op = "drop"
    /\ last.name = "panicked"
    /\ last.added = 1
    /\ last.res = "Err"
    /\ last.asked
    /\ status = "dropped"

\* C15: in wait_for_message_callback, when the menu callback of a received
\* index has returned and the name is looked up, items_reversed holds the
\* index, so the lookup succeeds and nothing is raised; this also after
\* remove_menu_item was called before the loop or inside a callback.
C15_NameLookupSucceeds ==
    [][ (loop.kind = "named" /\ loop.phase = "cb" /\ loop'.phase # "cb")
        => (/\ contains_key(items_reversed, loop.msg)
            /\ status' = "running")
      ]_vars

\* the indices of items that a successful remove_menu_item took out (the only
\* operation that deletes from items_reversed)
RemovedIdx == {i \in ItemIdx : ~contains_key(items_reversed, i)}

\* C16: an event that carries the index of a removed item, sent before or
\* after the removal, invokes no callback: it is dropped and the loop stays
\* waiting.
C16_RemovedNeverDispatched ==
    [][ (Called("recv") /\ last'.idx \in RemovedIdx)
        => (loop'.phase # "cb" /\ UNCHANGED <<loop, callback>>)
      ]_vars

\* every index an add_menu_item returned is, outside the invocation of its own
\* callback, mapped by the callback table to the closure that add was given,
\* and the table holds nothing else
CallbackTableKept ==
    /\ DOMAIN callback \subseteq ItemIdx
    /\ \A i \in ItemIdx :
          IF loop.phase = "cb" /\ loop.msg = i
          THEN loop.f = Registered(i)
          ELSE contains_key(callback, i) /\ callback[i] = Registered(i)

\* C17: the callback table only grows: once a callback is registered for an
\* index, every state outside that callback's own invocation maps the index to
\* that same callback (after a dispatch it is back in place, and no operation
\* deletes it), so every received event for the index invokes it again.
C17_CallbackTableOnlyGrows ==
    /\ []CallbackTableKept
    /\ [][ /\ DOMAIN callback \subseteq
                 (DOMAIN callback' \cup (IF loop'.phase = "cb" THEN {loop'.msg} ELSE {}))
           /\ (Called("recv") /\ last'.idx \in ItemIdx)
              => (/\ loop'.phase = "cb"
                  /\ loop'.msg = last'.idx
                  /\ loop'.f = Registered(last'.idx))
         ]_vars

\* the dispatch of an index has completed, the table maps the index to its
\* callback again, and another event for the same index is the next received
C17_Witness ==
    /\ last.op = "cb_return"
    /\ loop.phase = "waiting"
    /\ contains_key(callback, last.idx)
    /\ callback[last.idx] = Registered(last.idx)
    /\ rx # <<>>
    /\ Head(rx) = last.idx

\* C18: add_menu_separator passes the current menu_idx to the window; when
\* the window accepts, that index is returned and menu_idx advances by one;
\* when it rejects, the error is returned and menu_idx stays; in both cases
\* callback, items and items_reversed are left as they were.
C18_SeparatorFrame ==
    [][ Called("add_menu_separator") =>
          /\ last'.asked
          /\ last'.idx = menu_idx
          /\ UNCHANGED <<callback, items, items_reversed, loop, status>>
          /\ last'.res = "Ok"
             => (/\ menu_idx' = menu_idx + 1
                 /\ ret_log' = Append(ret_log, [idx |-> menu_idx,
                                                name |-> NoName, f |-> NoCb]))
          /\ last'.res = "Err" => UNCHANGED <<menu_idx, ret_log>>
      ]_vars

\* a separator was accepted on an Application that holds one item
C18_Witness ==
    /\ last.op = "add_menu_separator"
    /\ last.res = "Ok"
    /\ last.idx = 1
    /\ menu_idx = 2
    /\ DOMAIN callback = {0}
    /\ DOMAIN items_reversed = {0}

\* C19: the indices the window has accepted are exactly 0 .. menu_idx - 1,
\* without a gap, and every key of callback, every key of items_reversed,
\* every value of items and the index of a callback that is running is one of
\* them, hence below menu_idx.
C19_IndicesDense ==
    /\ win_accepted = 0 .. (menu_idx - 1)
    /\ DOMAIN callback \subseteq win_accepted
    /\ DOMAIN items_reversed \subseteq win_accepted
    /\ \A n \in DOMAIN items : items[n] \in win_accepted
    /\ loop.phase = "cb" => loop.msg \in win_accepted

\* two items were accepted and the first was removed from the menu
C19_Witness ==
    /\ menu_idx = 2
    /\ win_accepted = {0, 1}
    /\ DOMAIN callback = {0, 1}
    /\ DOMAIN items_reversed = {1}
    /\ DOMAIN win_menu = {1}

\* C20: the channel changes only by the window appending an event at its end
\* and by a receive taking the oldest one; a receive happens only while the
\* loop waits, never while a callback or the handler runs; a received event
\* whose index has a callback is dispatched to it; the loop reports closure
\* only when the sender is gone, and it ends only when nothing that was sent
\* is left in the channel.
C20_InOrderNoneLost ==
    [][ /\ rx' # rx
           => \/ Len(rx') = Len(rx) + 1 /\ SubSeq(rx', 1, Len(rx)) = rx
              \/ Called("recv") /\ rx # <<>> /\ rx' = Tail(rx)
        /\ Called("recv")
           => (/\ loop.phase = "waiting"
               /\ rx # <<>>
               /\ last'.idx = Head(rx)
               /\ rx' = Tail(rx)
               /\ contains_key(callback, Head(rx))
                  => (loop'.phase = "cb" /\ loop'.msg = Head(rx)))
        /\ Called("recv_closed") => ~tx_alive
        /\ (loop.phase # "none" /\ loop'.phase = "none") => rx = <<>>
      ]_vars

====
